---- MODULE Spec2Model ----
(***************************************************************************)
(* A model of the Markdown-to-HTML pipeline of the static site generator:  *)
(* block segmentation and classification (block_markdown.py), the inline   *)
(* span tokenizer (inline_markdown.py), the span-to-leaf conversion        *)
(* (textnode.py) and the HTML node model (htmlnode.py).                    *)
(*                                                                         *)
(* A Python str is a sequence of one-character strings; None is the        *)
(* sequence <<"None">>, which is no string of characters.  A call that may *)
(* raise returns ok(value) or raise(exception).  A local variable that the *)
(* code reads several times is the parameter of an operator that holds the *)
(* rest of the function body.                                              *)
(***************************************************************************)
EXTENDS Integers, Sequences, FiniteSets, TLC

VARIABLES markdown, pc, blocks, block_idx, children_nodes, result,
          fn, arg, ret

vars == <<markdown, pc, blocks, block_idx, children_nodes, result, fn, arg, ret>>

\* ------------------------------------------------------------------------
\* Bounds of the model
\* ------------------------------------------------------------------------
MaxDocLen == 6
MaxDocLines == 4
MaxBlockLen == 3
MaxBlockLines == 3
MaxPieces == 3
MaxSpanLen == 3
MaxDepth == 2
MaxConcurrentLines == 3
MaxQuoteLen == 5

\* ------------------------------------------------------------------------
\* Python values
\* ------------------------------------------------------------------------
None == <<"None">>
NoneList == <<[none |-> TRUE]>>

ok(v) == [ok |-> TRUE, val |-> v]
raise(e) == [ok |-> FALSE, exc |-> e]

Min(S) == CHOOSE x \in S : \A y \in S : x <= y

\* the least element of S, or default when S is empty
first_or(S, default) == IF S = {} THEN default ELSE Min(S)

\* str.isspace for the characters of the model's alphabets
Whitespace == {" ", "\t", "\n", "\r"}

\* The backtick character: SANY's lexer takes no backtick inside a string
\* literal, so the character is this atom
Backtick == "BACKTICK"

DigitChars == <<"0", "1", "2", "3", "4", "5", "6", "7", "8", "9">>

\* str(n) of a non-negative int, as the f-strings of lines 112 and 164 format it
RECURSIVE str(_)
str(n) == IF n < 10 THEN <<DigitChars[n + 1]>>
          ELSE str(n \div 10) \o <<DigitChars[(n % 10) + 1]>>

\* s[i:] with a 0-based i >= 0
slice_from(s, i) == SubSeq(s, i + 1, Len(s))

\* whether p occurs in s at the 1-based position i
occurs_at(s, p, i) ==
    /\ i >= 1
    /\ i + Len(p) - 1 <= Len(s)
    /\ \A k \in 1..Len(p) : s[i + k - 1] = p[k]

startswith(s, p) == occurs_at(s, p, 1)

endswith(s, p) == occurs_at(s, p, Len(s) - Len(p) + 1)

\* str.find: the 1-based position of the first occurrence of p in s at or
\* after position i, 0 when there is none (Python: 0-based, -1)
find(s, p, i) ==
    first_or({j \in i..(Len(s) - Len(p) + 1) : occurs_at(s, p, j)}, 0)

\* str.split(sep): the pieces between the non-overlapping occurrences of sep,
\* found left to right; j is the place of the first occurrence
RECURSIVE split(_, _)
split_at(s, sep, j) ==
    IF j = 0 THEN <<s>>
    ELSE <<SubSeq(s, 1, j - 1)>> \o split(SubSeq(s, j + Len(sep), Len(s)), sep)

split(s, sep) == split_at(s, sep, find(s, sep, 1))

\* str.split(sep, 1)
split_once_at(s, sep, j) ==
    IF j = 0 THEN <<s>>
    ELSE <<SubSeq(s, 1, j - 1), SubSeq(s, j + Len(sep), Len(s))>>

split_once(s, sep) == split_once_at(s, sep, find(s, sep, 1))

\* str.lstrip(chars) and str.rstrip(chars)
RECURSIVE lstrip(_, _)
lstrip(s, chars) ==
    IF s # <<>> /\ s[1] \in chars THEN lstrip(Tail(s), chars) ELSE s

RECURSIVE rstrip(_, _)
rstrip(s, chars) ==
    IF s # <<>> /\ s[Len(s)] \in chars THEN rstrip(SubSeq(s, 1, Len(s) - 1), chars)
    ELSE s

\* str.strip(chars); str.strip() is strip(s, Whitespace)
strip(s, chars) == rstrip(lstrip(s, chars), chars)

\* sep.join(parts)
RECURSIVE join(_, _)
join(sep, parts) ==
    IF parts = <<>> THEN <<>>
    ELSE IF Len(parts) = 1 THEN parts[1]
    ELSE parts[1] \o sep \o join(sep, Tail(parts))

\* str.replace(old, new) for a one-character old
replace(s, old, new) == [k \in 1..Len(s) |-> IF s[k] = old THEN new ELSE s[k]]

\* ------------------------------------------------------------------------
\* block_markdown.py: segmentation
\* ------------------------------------------------------------------------
\* mutant: the piece is appended as it is, unstripped
keep_block_unstripped(filtered_blocks, block, stripped_block) ==
    IF block = <<>> THEN filtered_blocks
    ELSE IF stripped_block # <<>> THEN Append(filtered_blocks, block)
    ELSE filtered_blocks

\* mutant: one whitespace character is stripped from each end, not all
keep_block_strip_one(filtered_blocks, block, stripped_block) ==
    IF block = <<>> THEN filtered_blocks
    ELSE IF stripped_block # <<>>
         THEN Append(filtered_blocks,
                  SubSeq(block,
                         IF block[1] \in Whitespace THEN 2 ELSE 1,
                         IF block[Len(block)] \in Whitespace THEN Len(block) - 1
                         ELSE Len(block)))
    ELSE filtered_blocks

\* lines 41-47: one piece of the split, and what it leaves in filtered_blocks
keep_block(filtered_blocks, block, stripped_block) ==
    IF block = <<>> THEN filtered_blocks
    ELSE IF stripped_block # <<>> THEN Append(filtered_blocks, stripped_block)
    ELSE filtered_blocks

\* the loop of lines 40-47
RECURSIVE filter_blocks(_, _, _)
filter_blocks(raw_blocks, i, filtered_blocks) ==
    IF i > Len(raw_blocks) THEN filtered_blocks
    ELSE filter_blocks(raw_blocks, i + 1,
             keep_block(filtered_blocks, raw_blocks[i], strip(raw_blocks[i], Whitespace)))

markdown_to_blocks(md) ==
    filter_blocks(split(md, <<"\n", "\n">>), 1, <<>>)

\* ------------------------------------------------------------------------
\* block_markdown.py: classification
\* ------------------------------------------------------------------------
BlockType == {"paragraph", "heading", "code", "quote", "unordered_list", "ordered_list"}

\* the number of leading '#' characters of a line
RECURSIVE leading_hashes(_)
leading_hashes(line) ==
    IF line # <<>> /\ line[1] = "#" THEN 1 + leading_hashes(Tail(line)) ELSE 0

\* mutant: the bound of the quantifier is off by one, #{1,7}
heading_marker_upto7(line, h) ==
    \E k \in 1..(IF h < 7 THEN h ELSE 7) :
        k + 1 <= Len(line) /\ line[k + 1] = " "

\* re.match(r"^#{1,6} ", line): the quantifier takes k of the h leading '#'
\* characters, 1 <= k <= 6, and a space must follow them
heading_marker(line, h) ==
    \E k \in 1..(IF h < 6 THEN h ELSE 6) :
        k + 1 <= Len(line) /\ line[k + 1] = " "

\* mutant: re.search in the place of re.match, the marker may stand anywhere
\* in the line
re_search_heading(line) ==
    \E i \in 0..Len(line) :
        heading_marker(slice_from(line, i), leading_hashes(slice_from(line, i)))

re_match_heading(line) == heading_marker(line, leading_hashes(line))

Fence == <<Backtick, Backtick, Backtick>>

\* the loop of lines 87-90: FALSE at the first line not starting with >
RECURSIVE all_lines_quote(_, _)
all_lines_quote(lines, i) ==
    IF i > Len(lines) THEN TRUE
    ELSE IF ~startswith(lines[i], <<">">>) THEN FALSE
    ELSE all_lines_quote(lines, i + 1)

\* the loop of lines 98-102
RECURSIVE all_lines_ul(_, _)
all_lines_ul(lines, i) ==
    IF i > Len(lines) THEN TRUE
    ELSE IF ~(startswith(lines[i], <<"*", " ">>) \/ startswith(lines[i], <<"-", " ">>))
         THEN FALSE
    ELSE all_lines_ul(lines, i + 1)

\* mutant: expected_number is never incremented
RECURSIVE all_lines_ol_no_increment(_, _, _)
all_lines_ol_no_increment(lines, i, expected_number) ==
    IF i > Len(lines) THEN TRUE
    ELSE IF ~startswith(lines[i], str(expected_number) \o <<".", " ">>) THEN FALSE
    ELSE all_lines_ol_no_increment(lines, i + 1, expected_number)

\* the loop of lines 111-115, expected_number counting from 1
RECURSIVE all_lines_ol(_, _, _)
all_lines_ol(lines, i, expected_number) ==
    IF i > Len(lines) THEN TRUE
    ELSE IF ~startswith(lines[i], str(expected_number) \o <<".", " ">>) THEN FALSE
    ELSE all_lines_ol(lines, i + 1, expected_number + 1)

\* lines 106-117
is_ordered_list(lines) == lines # <<>> /\ all_lines_ol(lines, 1, 1)

\* mutant: no default return, the function falls off its end with None
classify_lines_no_default(block, lines) ==
    IF re_match_heading(lines[1]) THEN "heading"
    ELSE IF Len(block) > 6 /\ startswith(block, Fence) /\ endswith(block, Fence)
         THEN "code"
    ELSE IF lines # <<>> /\ all_lines_quote(lines, 1) THEN "quote"
    ELSE IF lines # <<>> /\ all_lines_ul(lines, 1) THEN "unordered_list"
    ELSE IF is_ordered_list(lines) THEN "ordered_list"
    ELSE "None"

\* lines 68-120, lines being block.split of line 63
classify_lines(block, lines) ==
    IF re_match_heading(lines[1]) THEN "heading"
    ELSE IF Len(block) > 6 /\ startswith(block, Fence) /\ endswith(block, Fence)
         THEN "code"
    ELSE IF lines # <<>> /\ all_lines_quote(lines, 1) THEN "quote"
    ELSE IF lines # <<>> /\ all_lines_ul(lines, 1) THEN "unordered_list"
    ELSE IF is_ordered_list(lines) THEN "ordered_list"
    ELSE "paragraph"

\* the types whose condition holds for the block, each condition taken on
\* its own: line 68, line 79, lines 84-92, lines 95-104 and lines 107-117
matching_rules(block, lines) ==
    {t \in BlockType :
        \/ t = "heading" /\ re_match_heading(lines[1])
        \/ t = "code" /\ Len(block) > 6 /\ startswith(block, Fence) /\ endswith(block, Fence)
        \/ t = "quote" /\ lines # <<>> /\ all_lines_quote(lines, 1)
        \/ t = "unordered_list" /\ lines # <<>> /\ all_lines_ul(lines, 1)
        \/ t = "ordered_list" /\ is_ordered_list(lines)}

block_to_block_type(block) == classify_lines(block, split(block, <<"\n">>))

\* ------------------------------------------------------------------------
\* textnode.py and htmlnode.py: the span and node values
\* ------------------------------------------------------------------------
TextType == {"text", "bold", "italic", "code", "link", "image"}

TextNode(text, text_type, url) == [text |-> text, text_type |-> text_type, url |-> url]

HTMLNode(cls, tag, value, children, props) ==
    [cls |-> cls, tag |-> tag, value |-> value, children |-> children, props |-> props]

LeafNode(value, tag, props) == HTMLNode("LeafNode", tag, value, NoneList, props)

ParentNode(tag, children, props) == HTMLNode("ParentNode", tag, None, children, props)

\* one item of a props dict, which keeps its insertion order
Prop(key, val) == [key |-> key, val |-> val]

\* an exception: its type and message, and for the unmatched delimiter the
\* delimiter and the text its message names
ValueError(what) ==
    [type |-> "ValueError", what |-> what, delimiter |-> None, text |-> None]

UnmatchedDelimiter(delimiter, text) ==
    [type |-> "ValueError", what |-> "Unmatched delimiter",
     delimiter |-> delimiter, text |-> text]

\* ------------------------------------------------------------------------
\* inline_markdown.py: split_nodes_delimiter
\* ------------------------------------------------------------------------
\* mutant: the test of lines 52-53 is missing, empty parts become spans
RECURSIVE delimiter_parts_keep_empty(_, _, _, _)
delimiter_parts_keep_empty(split_parts, k, new_nodes, text_type) ==
    IF k > Len(split_parts) THEN new_nodes
    ELSE IF (k - 1) % 2 = 0
         THEN delimiter_parts_keep_empty(split_parts, k + 1,
                  Append(new_nodes, TextNode(split_parts[k], "text", None)), text_type)
    ELSE delimiter_parts_keep_empty(split_parts, k + 1,
             Append(new_nodes, TextNode(split_parts[k], text_type, None)), text_type)

\* the loop of lines 51-62 over enumerate(split_parts); k is i + 1
RECURSIVE delimiter_parts(_, _, _, _)
delimiter_parts(split_parts, k, new_nodes, text_type) ==
    IF k > Len(split_parts) THEN new_nodes
    ELSE IF split_parts[k] = <<>>
         THEN delimiter_parts(split_parts, k + 1, new_nodes, text_type)
    ELSE IF (k - 1) % 2 = 0
         THEN delimiter_parts(split_parts, k + 1,
                  Append(new_nodes, TextNode(split_parts[k], "text", None)), text_type)
    ELSE delimiter_parts(split_parts, k + 1,
             Append(new_nodes, TextNode(split_parts[k], text_type, None)), text_type)

\* mutant: the type test of lines 30-32 is missing, every node is split
RECURSIVE split_nodes_delimiter_loop(_, _, _, _, _)
split_node_untyped(old_nodes, n, new_nodes, delimiter, text_type, split_parts) ==
    IF Len(split_parts) % 2 = 0
    THEN IF Len(split_parts) > 1
         THEN raise(UnmatchedDelimiter(delimiter, old_nodes[n].text))
         ELSE split_nodes_delimiter_loop(old_nodes, n + 1,
                  Append(new_nodes, old_nodes[n]), delimiter, text_type)
    ELSE split_nodes_delimiter_loop(old_nodes, n + 1,
             delimiter_parts(split_parts, 1, new_nodes, text_type),
             delimiter, text_type)

\* lines 30-62: the n-th node of the loop over old_nodes, split_parts being
\* its text split at the delimiter, and the nodes after it
split_node_at_delimiter(old_nodes, n, new_nodes, delimiter, text_type, split_parts) ==
    IF old_nodes[n].text_type # "text"
    THEN split_nodes_delimiter_loop(old_nodes, n + 1,
             Append(new_nodes, old_nodes[n]), delimiter, text_type)
    ELSE IF Len(split_parts) % 2 = 0
    THEN IF Len(split_parts) > 1
         THEN raise(UnmatchedDelimiter(delimiter, old_nodes[n].text))
         ELSE split_nodes_delimiter_loop(old_nodes, n + 1,
                  Append(new_nodes, old_nodes[n]), delimiter, text_type)
    ELSE split_nodes_delimiter_loop(old_nodes, n + 1,
             delimiter_parts(split_parts, 1, new_nodes, text_type),
             delimiter, text_type)

split_nodes_delimiter_loop(old_nodes, n, new_nodes, delimiter, text_type) ==
    IF n > Len(old_nodes) THEN ok(new_nodes)
    ELSE split_node_at_delimiter(old_nodes, n, new_nodes, delimiter, text_type,
                                 split(old_nodes[n].text, delimiter))

split_nodes_delimiter(old_nodes, delimiter, text_type) ==
    split_nodes_delimiter_loop(old_nodes, 1, <<>>, delimiter, text_type)

\* ------------------------------------------------------------------------
\* inline_markdown.py: images and links
\* ------------------------------------------------------------------------
\* where a greedy run of characters outside excl, starting at j, stops: the
\* first position at or after j holding a character of excl, or Len + 1
run_end(text, j, excl) ==
    first_or({k \in j..Len(text) : text[k] \in excl}, Len(text) + 1)

NoMatch == [matched |-> FALSE, groups |-> <<>>, end |-> 0]

\* a match of \[([^\[\]]*)\]\(([^\(\)]*)\) starting at position j, the run of
\* group 1 stopping at a and the run of group 2 at b
bracket_paren_groups(text, j, a, b) ==
    IF /\ j >= 1 /\ j <= Len(text) /\ text[j] = "["
       /\ a <= Len(text) /\ text[a] = "]"
       /\ a + 1 <= Len(text) /\ text[a + 1] = "("
       /\ b <= Len(text) /\ text[b] = ")"
    THEN [matched |-> TRUE,
          groups |-> <<SubSeq(text, j + 1, a - 1), SubSeq(text, a + 2, b - 1)>>,
          end |-> b]
    ELSE NoMatch

bracket_paren_from(text, j, a) ==
    bracket_paren_groups(text, j, a, run_end(text, a + 2, {"(", ")"}))

bracket_paren_match(text, j) ==
    bracket_paren_from(text, j, run_end(text, j + 1, {"[", "]"}))

\* re.findall of the image pattern, scanning from position i; m is the match
\* tried at i
RECURSIVE findall_images(_, _)
images_after(text, i, m) ==
    IF m.matched THEN <<m.groups>> \o findall_images(text, m.end + 1)
    ELSE findall_images(text, i + 1)

findall_images(text, i) ==
    IF i > Len(text) THEN <<>>
    ELSE images_after(text, i,
             IF text[i] = "!" THEN bracket_paren_match(text, i + 1) ELSE NoMatch)

extract_markdown_images(text) == findall_images(text, 1)

\* re.findall of the link pattern: the lookbehind (?<!!) refuses a match
\* whose bracket follows a '!'
RECURSIVE findall_links(_, _)
links_after(text, i, m) ==
    IF m.matched THEN <<m.groups>> \o findall_links(text, m.end + 1)
    ELSE findall_links(text, i + 1)

findall_links(text, i) ==
    IF i > Len(text) THEN <<>>
    ELSE links_after(text, i,
             IF i = 1 \/ text[i - 1] # "!" THEN bracket_paren_match(text, i)
             ELSE NoMatch)

extract_markdown_links(text) == findall_links(text, 1)

markdown_image(alt, url) == <<"!", "[">> \o alt \o <<"]", "(">> \o url \o <<")">>

markdown_link(anchor, url) == <<"[">> \o anchor \o <<"]", "(">> \o url \o <<")">>

\* the appends guarded by a truth test of the text: lines 168-169, 179-180,
\* 189-190 and their twins of split_nodes_link
append_text_if(new_nodes, text) ==
    IF text # <<>> THEN Append(new_nodes, TextNode(text, "text", None)) ELSE new_nodes

\* lines 153-186: one image of the loop over the images of a node,
\* markdown_image being its markdown and sections the split of the text at
\* it, then the images after it; lines 189-190 end the loop
RECURSIVE image_sections(_, _, _, _)
image_section(images, k, text_to_process, new_nodes, markup, sections) ==
    IF Len(sections) # 2
    THEN IF text_to_process = markup
         THEN Append(new_nodes, TextNode(images[k][1], "image", images[k][2]))
         ELSE append_text_if(new_nodes, text_to_process)
    ELSE image_sections(images, k + 1, sections[2],
             Append(append_text_if(new_nodes, sections[1]),
                    TextNode(images[k][1], "image", images[k][2])))

image_markup(images, k, text_to_process, new_nodes, markup) ==
    image_section(images, k, text_to_process, new_nodes, markup,
        split_once(text_to_process, markup))

image_sections(images, k, text_to_process, new_nodes) ==
    IF k > Len(images) THEN append_text_if(new_nodes, text_to_process)
    ELSE image_markup(images, k, text_to_process, new_nodes,
             markdown_image(images[k][1], images[k][2]))

\* lines 135-190: one node of the loop over old_nodes, images being the
\* images of its text
split_node_at_images(new_nodes, old_node, images) ==
    IF old_node.text_type # "text" THEN Append(new_nodes, old_node)
    ELSE IF images = <<>>
    THEN IF old_node.text # <<>> THEN Append(new_nodes, old_node) ELSE new_nodes
    ELSE image_sections(images, 1, old_node.text, new_nodes)

RECURSIVE split_nodes_image_loop(_, _, _)
split_nodes_image_loop(old_nodes, n, new_nodes) ==
    IF n > Len(old_nodes) THEN new_nodes
    ELSE split_nodes_image_loop(old_nodes, n + 1,
             split_node_at_images(new_nodes, old_nodes[n],
                 IF old_nodes[n].text_type = "text"
                 THEN extract_markdown_images(old_nodes[n].text) ELSE <<>>))

split_nodes_image(old_nodes) == split_nodes_image_loop(old_nodes, 1, <<>>)

\* lines 230-259: one link of the loop over the links of a node,
\* markdown_link being its markdown and sections the split of the text at
\* it, then the links after it; lines 262-263 end the loop
RECURSIVE link_sections(_, _, _, _)
\* mutant: the Link spans of lines 238 and 255 are made without their url
link_section_without_url(links, k, text_to_process, new_nodes, markup, sections) ==
    IF Len(sections) # 2
    THEN IF text_to_process = markup
         THEN Append(new_nodes, TextNode(links[k][1], "link", None))
         ELSE append_text_if(new_nodes, text_to_process)
    ELSE link_sections(links, k + 1, sections[2],
             Append(append_text_if(new_nodes, sections[1]),
                    TextNode(links[k][1], "link", None)))

link_section(links, k, text_to_process, new_nodes, markup, sections) ==
    IF Len(sections) # 2
    THEN IF text_to_process = markup
         THEN Append(new_nodes, TextNode(links[k][1], "link", links[k][2]))
         ELSE append_text_if(new_nodes, text_to_process)
    ELSE link_sections(links, k + 1, sections[2],
             Append(append_text_if(new_nodes, sections[1]),
                    TextNode(links[k][1], "link", links[k][2])))

link_markup(links, k, text_to_process, new_nodes, markup) ==
    link_section(links, k, text_to_process, new_nodes, markup,
        split_once(text_to_process, markup))

link_sections(links, k, text_to_process, new_nodes) ==
    IF k > Len(links) THEN append_text_if(new_nodes, text_to_process)
    ELSE link_markup(links, k, text_to_process, new_nodes,
             markdown_link(links[k][1], links[k][2]))

\* mutant: the append of line 223 is missing, a node without links is lost
split_node_at_links_drops_plain(new_nodes, old_node, links) ==
    IF old_node.text_type # "text" THEN Append(new_nodes, old_node)
    ELSE IF links = <<>> THEN new_nodes
    ELSE link_sections(links, 1, old_node.text, new_nodes)

\* lines 212-263: one node of the loop over old_nodes, links being the links
\* of its text
split_node_at_links(new_nodes, old_node, links) ==
    IF old_node.text_type # "text" THEN Append(new_nodes, old_node)
    ELSE IF links = <<>>
    THEN IF old_node.text # <<>> THEN Append(new_nodes, old_node) ELSE new_nodes
    ELSE link_sections(links, 1, old_node.text, new_nodes)

RECURSIVE split_nodes_link_loop(_, _, _)
split_nodes_link_loop(old_nodes, n, new_nodes) ==
    IF n > Len(old_nodes) THEN new_nodes
    ELSE split_nodes_link_loop(old_nodes, n + 1,
             split_node_at_links(new_nodes, old_nodes[n],
                 IF old_nodes[n].text_type = "text"
                 THEN extract_markdown_links(old_nodes[n].text) ELSE <<>>))

split_nodes_link(old_nodes) == split_nodes_link_loop(old_nodes, 1, <<>>)

\* ------------------------------------------------------------------------
\* inline_markdown.py: text_to_textnodes
\* ------------------------------------------------------------------------
\* the delimiter passes of lines 289-291, in the order of the code
DelimiterPasses ==
    << [delimiter |-> <<"*", "*">>, text_type |-> "bold"],
       [delimiter |-> <<"_">>, text_type |-> "italic"],
       [delimiter |-> <<Backtick>>, text_type |-> "code"] >>

\* the passes from the k-th on; nodes is what the statements before returned
\* or raised, and a raise leaves the function
RECURSIVE delimiter_passes(_, _, _)
delimiter_passes(passes, k, nodes) ==
    IF k > Len(passes) \/ ~nodes.ok THEN nodes
    ELSE delimiter_passes(passes, k + 1,
             split_nodes_delimiter(nodes.val, passes[k].delimiter, passes[k].text_type))

\* mutant: line 297 returns the list of line 282 instead of the processed one
text_to_textnodes_initial_node(text) == ok(<<TextNode(text, "text", None)>>)

text_to_textnodes(text) ==
    delimiter_passes(DelimiterPasses, 1,
        ok(split_nodes_link(split_nodes_image(<<TextNode(text, "text", None)>>))))

\* ------------------------------------------------------------------------
\* textnode.py: text_node_to_html_node
\* ------------------------------------------------------------------------
\* mutant: the Image leaf of line 76 takes the alt text as its value
text_node_to_html_node_image_value(text_node) ==
    IF text_node.text_type = "text"
    THEN ok(LeafNode(text_node.text, None, NoneList))
    ELSE IF text_node.text_type = "bold"
    THEN ok(LeafNode(text_node.text, <<"b">>, NoneList))
    ELSE IF text_node.text_type = "italic"
    THEN ok(LeafNode(text_node.text, <<"i">>, NoneList))
    ELSE IF text_node.text_type = "code"
    THEN ok(LeafNode(text_node.text, <<"c", "o", "d", "e">>, NoneList))
    ELSE IF text_node.text_type = "link"
    THEN IF text_node.url = None
         THEN raise(ValueError("Link type requires a URL"))
         ELSE ok(LeafNode(text_node.text, <<"a">>,
                          <<Prop(<<"h", "r", "e", "f">>, text_node.url)>>))
    ELSE IF text_node.text_type = "image"
    THEN IF text_node.url = None
         THEN raise(ValueError("Image type requires a URL"))
         ELSE IF text_node.text = None
         THEN raise(ValueError("Image type requires text"))
         ELSE ok(LeafNode(text_node.text, <<"i", "m", "g">>,
                          <<Prop(<<"s", "r", "c">>, text_node.url),
                            Prop(<<"a", "l", "t">>, text_node.text)>>))
    ELSE raise(ValueError("Unsupported text type"))

text_node_to_html_node(text_node) ==
    IF text_node.text_type = "text"
    THEN ok(LeafNode(text_node.text, None, NoneList))
    ELSE IF text_node.text_type = "bold"
    THEN ok(LeafNode(text_node.text, <<"b">>, NoneList))
    ELSE IF text_node.text_type = "italic"
    THEN ok(LeafNode(text_node.text, <<"i">>, NoneList))
    ELSE IF text_node.text_type = "code"
    THEN ok(LeafNode(text_node.text, <<"c", "o", "d", "e">>, NoneList))
    ELSE IF text_node.text_type = "link"
    THEN IF text_node.url = None
         THEN raise(ValueError("Link type requires a URL"))
         ELSE ok(LeafNode(text_node.text, <<"a">>,
                          <<Prop(<<"h", "r", "e", "f">>, text_node.url)>>))
    ELSE IF text_node.text_type = "image"
    THEN IF text_node.url = None
         THEN raise(ValueError("Image type requires a URL"))
         ELSE IF text_node.text = None
         THEN raise(ValueError("Image type requires text"))
         ELSE ok(LeafNode(<<>>, <<"i", "m", "g">>,
                          <<Prop(<<"s", "r", "c">>, text_node.url),
                            Prop(<<"a", "l", "t">>, text_node.text)>>))
    ELSE raise(ValueError("Unsupported text type"))

\* ------------------------------------------------------------------------
\* htmlnode.py: props_to_html and to_html
\* ------------------------------------------------------------------------
NotImplementedError ==
    [type |-> "NotImplementedError", what |-> "Subclasses must implement this method",
     delimiter |-> None, text |-> None]

Quote == "\""

\* the loop of lines 36-37: key="val" of every item from the k-th on
RECURSIVE html_props(_, _)
html_props(props, k) ==
    IF k > Len(props) THEN <<>>
    ELSE <<props[k].key \o <<"=", Quote>> \o props[k].val \o <<Quote>>>>
         \o html_props(props, k + 1)

\* mutant: line 38 joins the attributes without the leading space
props_to_html_no_leading_space(props) ==
    IF props = NoneList \/ props = <<>> THEN <<>>
    ELSE join(<<" ">>, html_props(props, 1))

\* lines 33-38: None and the empty dict are falsy
props_to_html(props) ==
    IF props = NoneList \/ props = <<>> THEN <<>>
    ELSE <<" ">> \o join(<<" ">>, html_props(props, 1))

open_tag(tag, props) == <<"<">> \o tag \o props_to_html(props) \o <<">">>

close_tag(tag) == <<"<", "/">> \o tag \o <<">">>

\* LeafNode.to_html, lines 86-99
leaf_to_html(node) ==
    IF node.value = None THEN raise(ValueError("LeafNode requires a value"))
    ELSE IF node.tag = None THEN ok(node.value)
    ELSE ok(open_tag(node.tag, node.props) \o node.value \o close_tag(node.tag))

\* mutant: line 147 tests the truth of children, an empty list is refused
children_missing_or_empty(children) == children = NoneList \/ children = <<>>

\* line 147: children is None
children_missing(children) == children = NoneList

\* the loop of lines 156-157 from the n-th child on, child_html being what
\* to_html of the n-th child returned or raised, then lines 160-162
RECURSIVE to_html(_)
RECURSIVE children_to_html(_, _, _, _)
append_child_html(tag, children, n, html_content, child_html) ==
    IF child_html.ok
    THEN children_to_html(tag, children, n + 1, html_content \o child_html.val)
    ELSE child_html

children_to_html(tag, children, n, html_content) ==
    IF n > Len(children) THEN ok(html_content \o close_tag(tag))
    ELSE append_child_html(tag, children, n, html_content, to_html(children[n]))

\* ParentNode.to_html, lines 142-162
parent_to_html(node) ==
    IF node.tag = None \/ node.tag = <<>>
    THEN raise(ValueError("ParentNode requires a tag"))
    ELSE IF children_missing(node.children)
    THEN raise(ValueError("ParentNode requires children"))
    ELSE children_to_html(node.tag, node.children, 1, open_tag(node.tag, node.props))

\* node.to_html(): the method of the class of the node; line 22 for a node
\* of the base class
to_html(node) ==
    IF node.cls = "LeafNode" THEN leaf_to_html(node)
    ELSE IF node.cls = "ParentNode" THEN parent_to_html(node)
    ELSE raise(NotImplementedError)

\* ------------------------------------------------------------------------
\* block_markdown.py: the block converters
\* ------------------------------------------------------------------------
\* the loop of lines 126-128; html_node is the conversion of the n-th span
RECURSIVE text_nodes_to_children(_, _, _)
append_html_node(text_nodes, n, children, html_node) ==
    IF html_node.ok
    THEN text_nodes_to_children(text_nodes, n + 1, Append(children, html_node.val))
    ELSE html_node

text_nodes_to_children(text_nodes, n, children) ==
    IF n > Len(text_nodes) THEN ok(children)
    ELSE append_html_node(text_nodes, n, children, text_node_to_html_node(text_nodes[n]))

\* lines 125-129, text_nodes being what line 124 returned or raised
children_of(text_nodes) ==
    IF text_nodes.ok THEN text_nodes_to_children(text_nodes.val, 1, <<>>)
    ELSE text_nodes

text_to_children(text) == children_of(text_to_textnodes(text))

\* ParentNode(tag, children) of children that were built without raising
parent_of(tag, children) ==
    IF children.ok THEN ok(ParentNode(tag, children.val, NoneList)) ELSE children

\* mutant: the newlines of the block are kept
paragraph_block_with_newlines(block) == parent_of(<<"p">>, text_to_children(block))

paragraph_block_to_html_node(block) ==
    parent_of(<<"p">>, text_to_children(replace(block, "\n", " ")))

\* the loop of lines 149-150
RECURSIVE heading_level(_, _)
heading_level(first_line, level) ==
    IF level < Len(first_line) /\ first_line[level + 1] = "#"
    THEN heading_level(first_line, level + 1)
    ELSE level

\* lines 154-165; content_start_index is level + 1 on both paths of line 155
heading_of_level(first_line, level) ==
    parent_of(<<"h">> \o str(level),
              text_to_children(strip(slice_from(first_line, level + 1), Whitespace)))

heading_of_line(first_line) ==
    heading_of_level(first_line, heading_level(first_line, 0))

\* mutant: the heading is made of the whole block, not of its first line
heading_block_all_lines(block) == heading_of_line(block)

heading_block_to_html_node(block) == heading_of_line(split(block, <<"\n">>)[1])

\* mutant: the content between the fences is tokenized like a paragraph
code_block_tokenized(block) ==
    IF ~startswith(block, Fence) \/ ~endswith(block, Fence)
    THEN raise(ValueError("Invalid code block format"))
    ELSE parent_of(<<"p", "r", "e">>,
             text_to_children(strip(SubSeq(block, 4, Len(block) - 3), {"\n"})))

\* s without one character ch at its start and one at its end, if present
strip_one_trailing(s, ch) ==
    IF s # <<>> /\ s[Len(s)] = ch THEN SubSeq(s, 1, Len(s) - 1) ELSE s

strip_one(s, ch) ==
    strip_one_trailing(IF s # <<>> /\ s[1] = ch THEN Tail(s) ELSE s, ch)

\* mutant: one newline is removed at each end of the content, not all
code_block_strip_one_newline(block) ==
    IF ~startswith(block, Fence) \/ ~endswith(block, Fence)
    THEN raise(ValueError("Invalid code block format"))
    ELSE ok(ParentNode(<<"p", "r", "e">>,
                <<LeafNode(strip_one(SubSeq(block, 4, Len(block) - 3), "\n"),
                           <<"c", "o", "d", "e">>, NoneList)>>,
                NoneList))

code_block_to_html_node(block) ==
    IF ~startswith(block, Fence) \/ ~endswith(block, Fence)
    THEN raise(ValueError("Invalid code block format"))
    ELSE ok(ParentNode(<<"p", "r", "e">>,
                <<LeafNode(strip(SubSeq(block, 4, Len(block) - 3), {"\n"}),
                           <<"c", "o", "d", "e">>, NoneList)>>,
                NoneList))

\* line 183
quote_content_lines(lines) ==
    [k \in 1..Len(lines) |-> lstrip(lstrip(lines[k], {">", " "}), {">"})]

quote_block_to_html_node(block) ==
    parent_of(<<"b", "l", "o", "c", "k", "q", "u", "o", "t", "e">>,
        text_to_children(join(<<"\n">>, quote_content_lines(split(block, <<"\n">>)))))

\* the loop of lines 192-197 and of lines 204-211; children is the
\* conversion of the content of the n-th line, and items_after goes on with
\* the lines after it
RECURSIVE unordered_list_items(_, _, _)
RECURSIVE ordered_list_items(_, _, _)
append_list_item(ordered, lines, n, list_items, children) ==
    IF ~children.ok THEN children
    ELSE IF ordered
    THEN ordered_list_items(lines, n + 1,
             Append(list_items, ParentNode(<<"l", "i">>, children.val, NoneList)))
    ELSE unordered_list_items(lines, n + 1,
             Append(list_items, ParentNode(<<"l", "i">>, children.val, NoneList)))

unordered_list_items(lines, n, list_items) ==
    IF n > Len(lines) THEN ok(list_items)
    ELSE IF lines[n] = <<>> THEN unordered_list_items(lines, n + 1, list_items)
    ELSE append_list_item(FALSE, lines, n, list_items,
             text_to_children(slice_from(lines[n], 2)))

unordered_list_block_to_html_node(block) ==
    parent_of(<<"u", "l">>, unordered_list_items(split(block, <<"\n">>), 1, <<>>))

\* mutant: the marker of an ordered list is taken to be three characters
ordered_list_item_three_chars(lines, n, list_items, first_space) ==
    append_list_item(TRUE, lines, n, list_items,
        text_to_children(slice_from(lines[n], 3)))

\* lines 207-211; first_space is find(' ') + 1, 0 when there is no space
ordered_list_item(lines, n, list_items, first_space) ==
    IF first_space - 1 = -1 THEN ordered_list_items(lines, n + 1, list_items)
    ELSE append_list_item(TRUE, lines, n, list_items,
             text_to_children(slice_from(lines[n], (first_space - 1) + 1)))

ordered_list_items(lines, n, list_items) ==
    IF n > Len(lines) THEN ok(list_items)
    ELSE IF lines[n] = <<>> THEN ordered_list_items(lines, n + 1, list_items)
    ELSE ordered_list_item(lines, n, list_items, find(lines[n], <<" ">>, 1))

ordered_list_block_to_html_node(block) ==
    parent_of(<<"o", "l">>, ordered_list_items(split(block, <<"\n">>), 1, <<>>))

\* ------------------------------------------------------------------------
\* block_markdown.py: markdown_to_html_node
\* ------------------------------------------------------------------------
\* lines 233-248: the node of a block of type block_type, or the exception
\* raised
convert_block(block, block_type) ==
    IF block_type = "paragraph" THEN paragraph_block_to_html_node(block)
    ELSE IF block_type = "heading" THEN heading_block_to_html_node(block)
    ELSE IF block_type = "code" THEN code_block_to_html_node(block)
    ELSE IF block_type = "quote" THEN quote_block_to_html_node(block)
    ELSE IF block_type = "unordered_list" THEN unordered_list_block_to_html_node(block)
    ELSE IF block_type = "ordered_list" THEN ordered_list_block_to_html_node(block)
    ELSE raise(ValueError("Unknown block type encountered"))

\* lines 232-248
block_to_html_node(block) == convert_block(block, block_to_block_type(block))

\* mutant: the node is inserted at the head of the list
append_node_at_head(nodes, node) ==
    IF node.cls # "NoneType" THEN <<node>> \o nodes ELSE nodes

\* lines 250-251: a ParentNode defines neither __bool__ nor __len__, so only
\* the None of line 233 is falsy
append_node(nodes, node) ==
    IF node.cls # "NoneType" THEN Append(nodes, node) ELSE nodes

\* ------------------------------------------------------------------------
\* block_markdown.py: extract_title
\* ------------------------------------------------------------------------
RECURSIVE extract_title_loop(_, _)
\* mutant: line 274 returns the rest of the line without stripping it
title_of_line_unstripped(lines, n, stripped_line) ==
    IF startswith(stripped_line, <<"#", " ">>)
    THEN ok(slice_from(stripped_line, 2))
    ELSE extract_title_loop(lines, n + 1)

\* lines 272-274 for the n-th line, stripped_line being line 271
title_of_line(lines, n, stripped_line) ==
    IF startswith(stripped_line, <<"#", " ">>)
    THEN ok(strip(slice_from(stripped_line, 2), Whitespace))
    ELSE extract_title_loop(lines, n + 1)

\* the loop of lines 270-274, and line 276 after it
extract_title_loop(lines, n) ==
    IF n > Len(lines) THEN raise(ValueError("No H1 heading found"))
    ELSE title_of_line(lines, n, strip(lines[n], Whitespace))

extract_title(md) == extract_title_loop(split(md, <<"\n">>), 1)

\* ------------------------------------------------------------------------
\* Inputs
\* ------------------------------------------------------------------------
StringsUpTo(alphabet, n) == UNION {[1..k -> alphabet] : k \in 0..n}

\* lines a document is made of: blank, plain, an unmatched delimiter, a
\* heading, list items, a quote and a one-line code block
DocLines ==
    { <<>>,
      <<"a">>,
      <<"_">>,
      <<"#", " ", "a">>,
      <<"-", " ", "_", "a", "_">>,
      <<"1", ".", " ", "a">>,
      <<">", " ", "a">>,
      <<Backtick, Backtick, Backtick, "_", Backtick, Backtick, Backtick>> }

DocInputs ==
    {join(<<"\n">>, ls) : ls \in StringsUpTo(DocLines, MaxDocLines)}

SegmentAlphabet == {"a", " ", "\t", "\n"}

SegmentInputs == StringsUpTo(SegmentAlphabet, MaxDocLen)

ClassifyAlphabet == {"#", " ", "a", Backtick, ">", "-", "*", "1", "2", ".", "\n"}

ClassifyLines ==
    { <<>>,
      <<"a">>,
      <<"#", " ", "a">>,
      <<"#", "#", "#", "#", "#", "#", " ", "a">>,
      <<"#", "#", "#", "#", "#", "#", "#", " ", "a">>,
      <<Backtick, Backtick, Backtick>>,
      <<Backtick, Backtick, Backtick, Backtick, Backtick, Backtick>>,
      <<Backtick, Backtick, Backtick, "a", Backtick, Backtick, Backtick>>,
      <<">", "a">>,
      <<"-", " ", "a">>,
      <<"*", " ", "a">>,
      <<"1", ".", " ", "a">>,
      <<"2", ".", " ", "a">>,
      <<"3", ".", " ", "a">>,
      <<"2", ".", "a">> }

BlockInputs ==
    StringsUpTo(ClassifyAlphabet, MaxBlockLen)
      \cup {join(<<"\n">>, ls) : ls \in StringsUpTo(ClassifyLines, MaxBlockLines)}

TextPieces ==
    { <<"a">>, <<" ">>, <<"*", "*">>, <<"_">>, <<Backtick>>, <<"!">>,
      <<"*">>, <<"[">>,
      <<"[", "a", "]", "(", "u", ")">>,
      <<"!", "[", "a", "]", "(", "u", ")">>,
      <<"[", "a", "]", "(", ")">>,
      <<"!", "[", "_", "]", "(", "*", "*", ")">>,
      <<"[", Backtick, "]", "(", "_", ")">>,
      <<"*", "*", "a", "*", "*">>,
      <<"_", "a", "_">>,
      <<Backtick, "a", Backtick>> }

TextInputs ==
    {join(<<>>, ps) : ps \in StringsUpTo(TextPieces, MaxPieces)}

SpanAlphabet == {"a", "*", "_"}

SpanInputs ==
    {TextNode(t, tt, None) : t \in StringsUpTo(SpanAlphabet, MaxSpanLen),
                             tt \in {"text", "bold"}}

DelimiterInputs ==
    {[old_nodes |-> ns, delimiter |-> d[1], text_type |-> d[2]] :
        ns \in {<<>>} \cup {<<x>> : x \in SpanInputs}
                      \cup {<<x, y>> : x \in SpanInputs, y \in SpanInputs},
        d \in {<< <<"*", "*">>, "bold" >>, << <<"_">>, "italic" >>}}

\* ------------------------------------------------------------------------
\* The state machine
\* ------------------------------------------------------------------------
\* Concurrent calls of markdown_to_html_node; the locals of call c are
\* markdown[c], blocks[c], block_idx[c] and children_nodes[c]
Callers == {1, 2}

Pending == [pending |-> TRUE]

\* no call of markdown_to_html_node is in progress
PipelineIdle ==
    /\ markdown = [c \in Callers |-> <<>>]
    /\ pc = [c \in Callers |-> "idle"]
    /\ blocks = [c \in Callers |-> <<>>]
    /\ block_idx = [c \in Callers |-> 1]
    /\ children_nodes = [c \in Callers |-> <<>>]
    /\ result = [c \in Callers |-> Pending]

\* no function is called on its own
UnitIdle == fn = "idle" /\ arg = <<>> /\ ret = Pending

\* caller 1 calls markdown_to_html_node(d)
OneCall(d) ==
    /\ markdown = [c \in Callers |-> IF c = 1 THEN d ELSE <<>>]
    /\ pc = [c \in Callers |-> IF c = 1 THEN "start" ELSE "idle"]
    /\ blocks = [c \in Callers |-> <<>>]
    /\ block_idx = [c \in Callers |-> 1]
    /\ children_nodes = [c \in Callers |-> <<>>]
    /\ result = [c \in Callers |-> Pending]
    /\ UnitIdle

Init == \E d \in DocInputs : OneCall(d)

InitSegment == \E d \in SegmentInputs : OneCall(d)

\* lines 228-229
Segment(c) ==
    /\ pc[c] = "start"
    /\ blocks' = [blocks EXCEPT ![c] = markdown_to_blocks(markdown[c])]
    /\ children_nodes' = [children_nodes EXCEPT ![c] = <<>>]
    /\ block_idx' = [block_idx EXCEPT ![c] = 1]
    /\ pc' = [pc EXCEPT ![c] = "loop"]
    /\ UNCHANGED <<markdown, result, fn, arg, ret>>

\* mutant: a block whose conversion raises is skipped and the loop goes on
StoreNode_skip_failed(c, node) ==
    /\ children_nodes' = [children_nodes EXCEPT
                            ![c] = IF node.ok THEN append_node(@, node.val) ELSE @]
    /\ block_idx' = [block_idx EXCEPT ![c] = @ + 1]
    /\ UNCHANGED <<pc, result>>

\* mutant: children_nodes is one list of the module, shared by all calls
StoreNode_shared_children(c, node) ==
    IF node.ok
    THEN /\ children_nodes' = [o \in Callers |-> append_node(children_nodes[c], node.val)]
         /\ block_idx' = [block_idx EXCEPT ![c] = @ + 1]
         /\ UNCHANGED <<pc, result>>
    ELSE /\ pc' = [pc EXCEPT ![c] = "raised"]
         /\ result' = [result EXCEPT ![c] = node]
         /\ UNCHANGED <<children_nodes, block_idx>>

\* lines 232-251 for the block at block_idx[c]: node is what the converter
\* returned or raised, and an exception leaves the function
StoreNode(c, node) ==
    IF node.ok
    THEN /\ children_nodes' = [children_nodes EXCEPT ![c] = append_node(@, node.val)]
         /\ block_idx' = [block_idx EXCEPT ![c] = @ + 1]
         /\ UNCHANGED <<pc, result>>
    ELSE /\ pc' = [pc EXCEPT ![c] = "raised"]
         /\ result' = [result EXCEPT ![c] = node]
         /\ UNCHANGED <<children_nodes, block_idx>>

\* lines 231-251: one iteration of the loop over the blocks
ConvertBlock(c) ==
    /\ pc[c] = "loop"
    /\ block_idx[c] <= Len(blocks[c])
    /\ StoreNode(c, block_to_html_node(blocks[c][block_idx[c]]))
    /\ UNCHANGED <<markdown, blocks, fn, arg, ret>>

\* line 254
Return(c) ==
    /\ pc[c] = "loop"
    /\ block_idx[c] > Len(blocks[c])
    /\ result' = [result EXCEPT
                    ![c] = ok(ParentNode(<<"d", "i", "v">>, children_nodes[c], NoneList))]
    /\ pc' = [pc EXCEPT ![c] = "done"]
    /\ UNCHANGED <<markdown, blocks, block_idx, children_nodes, fn, arg, ret>>

Next == \E c \in Callers : Segment(c) \/ ConvertBlock(c) \/ Return(c)

Spec == Init /\ [][Next]_vars

SpecSegment == InitSegment /\ [][Next]_vars

\* documents of two concurrent calls, of lines that are blank, a paragraph
\* whose conversion raises, or a heading
ConcurrentInputs ==
    {join(<<"\n">>, ls) :
        ls \in StringsUpTo({ <<>>, <<"_">>, <<"#", " ", "a">> }, MaxConcurrentLines)}

\* caller 1 calls markdown_to_html_node(d1) and caller 2 calls
\* markdown_to_html_node(d2)
TwoCalls(d1, d2) ==
    /\ markdown = [c \in Callers |-> IF c = 1 THEN d1 ELSE d2]
    /\ pc = [c \in Callers |-> "start"]
    /\ blocks = [c \in Callers |-> <<>>]
    /\ block_idx = [c \in Callers |-> 1]
    /\ children_nodes = [c \in Callers |-> <<>>]
    /\ result = [c \in Callers |-> Pending]
    /\ UnitIdle

SpecConcurrent ==
    /\ \E d1 \in ConcurrentInputs, d2 \in ConcurrentInputs : TwoCalls(d1, d2)
    /\ [][Next]_vars

\* ------------------------------------------------------------------------
\* Calls of one function on its own
\* ------------------------------------------------------------------------
UnitCall(inputs) == PipelineIdle /\ fn = "idle" /\ arg \in inputs /\ ret = Pending

Returned(name, value) ==
    /\ fn = "idle"
    /\ fn' = name
    /\ ret' = value
    /\ UNCHANGED <<markdown, pc, blocks, block_idx, children_nodes, result, arg>>

InitClassify == UnitCall(BlockInputs)

call_block_to_block_type == Returned("block_to_block_type", block_to_block_type(arg))

SpecClassify == InitClassify /\ [][call_block_to_block_type]_vars

InitTokenize == UnitCall(TextInputs)

call_text_to_textnodes == Returned("text_to_textnodes", text_to_textnodes(arg))

SpecTokenize == InitTokenize /\ [][call_text_to_textnodes]_vars

InitDelimiter == UnitCall(DelimiterInputs)

call_split_nodes_delimiter ==
    Returned("split_nodes_delimiter",
             split_nodes_delimiter(arg.old_nodes, arg.delimiter, arg.text_type))

SpecDelimiter == InitDelimiter /\ [][call_split_nodes_delimiter]_vars

\* texts for split_nodes_link: links and images, with the same and with
\* different anchors
LinkPieces ==
    { <<"a">>, <<" ">>, <<"!">>,
      <<"[", "a", "]", "(", "u", ")">>,
      <<"[", "b", "]", "(", "u", ")">>,
      <<"!", "[", "a", "]", "(", "u", ")">> }

LinkInputs ==
    {<<TextNode(join(<<>>, ps), "text", None)>> : ps \in StringsUpTo(LinkPieces, MaxPieces)}

InitLink == UnitCall(LinkInputs)

call_split_nodes_link == Returned("split_nodes_link", split_nodes_link(arg))

SpecLink == InitLink /\ [][call_split_nodes_link]_vars

\* spans for text_node_to_html_node: every TextType and a type that is none
\* of them, with and without text and url
LeafTexts == StringsUpTo({"a", "b"}, MaxSpanLen) \cup {None}

LeafUrls == {None, <<>>, <<"u">>}

LeafInputs ==
    {TextNode(t, tt, u) : t \in LeafTexts, tt \in TextType \cup {"fake"}, u \in LeafUrls}

InitLeaf == UnitCall(LeafInputs)

call_text_node_to_html_node ==
    Returned("text_node_to_html_node", text_node_to_html_node(arg))

SpecLeaf == InitLeaf /\ [][call_text_node_to_html_node]_vars

\* trees for to_html: leaves with and without tag, value and props, and
\* parents with and without tag and children, nested to MaxDepth
RenderLeaves ==
    { LeafNode(<<"a">>, None, NoneList),
      LeafNode(<<"a">>, <<"b">>, <<>>),
      LeafNode(<<>>, <<"i", "m", "g">>,
               <<Prop(<<"s", "r", "c">>, <<"u">>), Prop(<<"a", "l", "t">>, <<"a">>)>>),
      LeafNode(None, <<"b">>, NoneList) }

ParentTags == {<<"p">>, <<"d", "i", "v">>, <<>>, None}

ParentProps(tag) ==
    IF tag = <<"d", "i", "v">> THEN <<Prop(<<"i", "d">>, <<"x">>)>> ELSE NoneList

\* children lists: none, one tree, or a tree and a leaf in either order
ChildLists(trees) ==
    {<<>>} \cup {<<t>> : t \in trees}
           \cup {<<t, l>> : t \in trees, l \in RenderLeaves}
           \cup {<<l, t>> : l \in RenderLeaves, t \in trees}

RECURSIVE RenderTrees(_)
RenderTrees(depth) ==
    IF depth = 0 THEN RenderLeaves
    ELSE RenderLeaves
         \cup {ParentNode(<<"p">>, NoneList, NoneList)}
         \cup {ParentNode(tag, ch, ParentProps(tag)) :
                   tag \in ParentTags, ch \in ChildLists(RenderTrees(depth - 1))}

InitRender == UnitCall(RenderTrees(MaxDepth))

call_to_html == Returned("to_html", to_html(arg))

SpecRender == InitRender /\ [][call_to_html]_vars

\* documents for extract_title
TitleAlphabet == {"#", " ", "a", "\n"}

TitleInputs == StringsUpTo(TitleAlphabet, MaxDocLen)

InitTitle == UnitCall(TitleInputs)

call_extract_title == Returned("extract_title", extract_title(arg))

SpecTitle == InitTitle /\ [][call_extract_title]_vars

\* blocks for code_block_to_html_node: contents with inline markers and
\* newlines, with and without the fences around them
CodeInputs ==
    {f \o join(<<>>, ps) \o f :
        f \in {<<>>, Fence},
        ps \in StringsUpTo({ <<"a">>, <<"\n">>, <<"*", "*">>, <<"_">>, <<Backtick>>,
                             <<"[", "a", "]", "(", "u", ")">>,
                             <<"!", "[", "a", "]", "(", "u", ")">> }, MaxPieces)}

\* blocks for quote_block_to_html_node: lines of markers, spaces and text
QuoteInputs == StringsUpTo({">", " ", "a", "\n"}, MaxQuoteLen)

\* blocks for heading_block_to_html_node: one to seven '#', a text of inline
\* pieces after them, and nothing or one more line after the first line
HeadingInputs ==
    {[k \in 1..n |-> "#"] \o join(<<>>, ps) \o l :
        n \in 1..7,
        ps \in StringsUpTo({ <<" ">>, <<"a">>, <<"_">>, <<"\t">>,
                             <<"*", "*", "a", "*", "*">> }, MaxPieces),
        l \in { <<>>, <<"\n", "b">>, <<"\n", "*", "*">>, <<"\n", "#", " ", "c">> }}

\* blocks for paragraph_block_to_html_node: lines with spans that open on
\* one line and close on the next
ParagraphInputs ==
    {join(<<>>, ps) :
        ps \in StringsUpTo({ <<"a">>, <<"\n">>, <<"_">>,
                             <<"*", "*", "a">>, <<"b", "*", "*">>,
                             <<"[", "a">>, <<"]", "(", "u", ")">> }, MaxPieces)}

\* blocks for the list converters: items of both kinds, with spans, with a
\* second space after the marker and with an unmatched delimiter, and one
\* ordered list long enough to have a marker of two digits
ListInputs ==
    {join(<<"\n">>, ls) :
        ls \in StringsUpTo({ <<"-", " ", "a">>,
                             <<"*", " ", "_", "b", "_">>,
                             <<"-", " ", " ", "a">>,
                             <<"-", " ", "_">>,
                             <<"-", " ">>,
                             <<"1", ".", " ", "a">>,
                             <<"2", ".", " ", "*", "*", "b", "*", "*">>,
                             <<"2", ".", " ", "_">>,
                             <<"3", ".", " ", " ", "c">> }, MaxBlockLines)}
      \cup {join(<<"\n">>, [k \in 1..10 |-> str(k) \o <<".", " ", "a">>])}

\* one call of a block converter on a block made for it
call_paragraph_block_to_html_node ==
    /\ arg \in ParagraphInputs
    /\ Returned("paragraph_block_to_html_node", paragraph_block_to_html_node(arg))

call_heading_block_to_html_node ==
    /\ arg \in HeadingInputs
    /\ Returned("heading_block_to_html_node", heading_block_to_html_node(arg))

call_code_block_to_html_node ==
    /\ arg \in CodeInputs
    /\ Returned("code_block_to_html_node", code_block_to_html_node(arg))

call_quote_block_to_html_node ==
    /\ arg \in QuoteInputs
    /\ Returned("quote_block_to_html_node", quote_block_to_html_node(arg))

call_unordered_list_block_to_html_node ==
    /\ arg \in ListInputs
    /\ Returned("unordered_list_block_to_html_node", unordered_list_block_to_html_node(arg))

call_ordered_list_block_to_html_node ==
    /\ arg \in ListInputs
    /\ Returned("ordered_list_block_to_html_node", ordered_list_block_to_html_node(arg))

NextConvert ==
    \/ call_paragraph_block_to_html_node
    \/ call_heading_block_to_html_node
    \/ call_code_block_to_html_node
    \/ call_quote_block_to_html_node
    \/ call_unordered_list_block_to_html_node
    \/ call_ordered_list_block_to_html_node

SpecConvert ==
    /\ UnitCall(ParagraphInputs \cup HeadingInputs \cup CodeInputs
                    \cup QuoteInputs \cup ListInputs)
    /\ [][NextConvert]_vars

\* ------------------------------------------------------------------------
\* Properties
\* ------------------------------------------------------------------------
\* the callers whose call of markdown_to_html_node has segmented its document
Segmented(c) == pc[c] \in {"loop", "done", "raised"}

\* the places of the blocks of a document whose conversion raises
FailingBlocks(bs) == {i \in 1..Len(bs) : ~block_to_html_node(bs[i]).ok}

\* C1: a conversion that succeeds returns one ParentNode "div" whose
\* children are the conversions of the blocks of the document, one per
\* block and in the order of the blocks.
C1_DivOfBlocksInOrder ==
    \A c \in Callers :
        pc[c] = "done" =>
            /\ result[c].ok
            /\ result[c].val.cls = "ParentNode"
            /\ result[c].val.tag = <<"d", "i", "v">>
            /\ Len(result[c].val.children) = Len(markdown_to_blocks(markdown[c]))
            /\ \A i \in 1..Len(markdown_to_blocks(markdown[c])) :
                   block_to_html_node(markdown_to_blocks(markdown[c])[i])
                       = ok(result[c].val.children[i])

\* a document of two blocks that convert to two different nodes
C1_Witness ==
    /\ pc[1] = "done"
    /\ result[1].ok
    /\ Len(markdown_to_blocks(markdown[1])) = 2
    /\ Len(result[1].val.children) = 2
    /\ result[1].val.children[1] # result[1].val.children[2]

\* C2: when the conversion of some block of the document raises, the call
\* never returns a tree: it has no result until it raises, and it raises the
\* exception of the first such block.
C2_NoPartialTree ==
    \A c \in Callers :
        (pc[c] # "idle" /\ FailingBlocks(markdown_to_blocks(markdown[c])) # {}) =>
            /\ pc[c] # "done"
            /\ \/ result[c] = Pending /\ pc[c] # "raised"
               \/ /\ pc[c] = "raised"
                  /\ result[c] =
                       block_to_html_node(markdown_to_blocks(markdown[c])
                           [Min(FailingBlocks(markdown_to_blocks(markdown[c])))])

\* the second block raised after the first block was converted
C2_Witness ==
    /\ pc[1] = "raised"
    /\ block_idx[1] = 2
    /\ Len(children_nodes[1]) = 1
    /\ ~result[1].ok
    /\ result[1].exc.what = "Unmatched delimiter"

\* C3: no block of the segmentation is empty, and none starts or ends with
\* a whitespace character.
C3_BlocksTrimmedNonEmpty ==
    \A c \in Callers :
        Segmented(c) =>
            \A i \in 1..Len(blocks[c]) :
                /\ blocks[c][i] # <<>>
                /\ blocks[c][i][1] \notin Whitespace
                /\ blocks[c][i][Len(blocks[c][i])] \notin Whitespace

\* a document with a whitespace-only piece that is dropped and a piece that
\* is stripped
C3_Witness ==
    /\ Segmented(1)
    /\ Len(blocks[1]) >= 1
    /\ \E k \in 1..Len(split(markdown[1], <<"\n", "\n">>)) :
           /\ split(markdown[1], <<"\n", "\n">>)[k] # <<>>
           /\ strip(split(markdown[1], <<"\n", "\n">>)[k], Whitespace) = <<>>
    /\ \E k \in 1..Len(split(markdown[1], <<"\n", "\n">>)) :
           /\ strip(split(markdown[1], <<"\n", "\n">>)[k], Whitespace) # <<>>
           /\ strip(split(markdown[1], <<"\n", "\n">>)[k], Whitespace)
                  # split(markdown[1], <<"\n", "\n">>)[k]

\* C4: the blocks of a document, joined with two newlines and segmented
\* again, are the same blocks.
C4_SegmentIdempotent ==
    \A c \in Callers :
        Segmented(c) =>
            markdown_to_blocks(join(<<"\n", "\n">>, blocks[c])) = blocks[c]

\* two blocks of a document that is not the join of its blocks
C4_Witness ==
    /\ Segmented(1)
    /\ Len(blocks[1]) = 2
    /\ join(<<"\n", "\n">>, blocks[1]) # markdown[1]

\* C5: no line of a block of the segmentation is empty or whitespace-only.
C5_NoBlankLineInBlock ==
    \A c \in Callers :
        Segmented(c) =>
            \A i \in 1..Len(blocks[c]) :
                \A k \in 1..Len(split(blocks[c][i], <<"\n">>)) :
                    strip(split(blocks[c][i], <<"\n">>)[k], Whitespace) # <<>>

\* The lines of a block, by the places of its newlines
NewlinesOf(B) == {i \in 1..Len(B) : B[i] = "\n"}

NthNewline(B, k) ==
    CHOOSE p \in NewlinesOf(B) : Cardinality({q \in NewlinesOf(B) : q < p}) = k - 1

LineCount(B) == Cardinality(NewlinesOf(B)) + 1

LineOf(B, k) ==
    SubSeq(B,
           IF k = 1 THEN 1 ELSE NthNewline(B, k - 1) + 1,
           IF k = LineCount(B) THEN Len(B) ELSE NthNewline(B, k) - 1)

HasPrefix(line, p) == Len(line) >= Len(p) /\ SubSeq(line, 1, Len(p)) = p

\* the decision list of the classifier, rule by rule
HashRun(line) ==
    CHOOSE h \in 0..Len(line) :
        /\ \A k \in 1..h : line[k] = "#"
        /\ h = Len(line) \/ line[h + 1] # "#"

HeadingRule(B) ==
    /\ HashRun(LineOf(B, 1)) \in 1..6
    /\ HashRun(LineOf(B, 1)) < Len(LineOf(B, 1))
    /\ LineOf(B, 1)[HashRun(LineOf(B, 1)) + 1] = " "

CodeRule(B) ==
    /\ Len(B) > 6
    /\ SubSeq(B, 1, 3) = Fence
    /\ SubSeq(B, Len(B) - 2, Len(B)) = Fence

QuoteRule(B) == \A k \in 1..LineCount(B) : HasPrefix(LineOf(B, k), <<">">>)

UnorderedListRule(B) ==
    \A k \in 1..LineCount(B) :
        HasPrefix(LineOf(B, k), <<"-", " ">>) \/ HasPrefix(LineOf(B, k), <<"*", " ">>)

OrderedListRule(B) ==
    \A k \in 1..LineCount(B) : HasPrefix(LineOf(B, k), str(k) \o <<".", " ">>)

DecisionList(B) ==
    IF HeadingRule(B) THEN "heading"
    ELSE IF CodeRule(B) THEN "code"
    ELSE IF QuoteRule(B) THEN "quote"
    ELSE IF UnorderedListRule(B) THEN "unordered_list"
    ELSE IF OrderedListRule(B) THEN "ordered_list"
    ELSE "paragraph"

Classified == fn = "block_to_block_type"

\* C6: block_to_block_type returns one of the six block types for every
\* string, the empty string too, so the branch of markdown_to_html_node for
\* an unknown block type is never taken.
C6_ClassifyTotal ==
    Classified =>
        /\ ret \in BlockType
        /\ \/ convert_block(arg, ret).ok
           \/ convert_block(arg, ret).exc.what # "Unknown block type encountered"

\* the empty string is classified, as a paragraph
C6_Witness == Classified /\ arg = <<>> /\ ret = "paragraph"

C8_OrderedListNumbering ==
    Classified =>
        /\ ret = "ordered_list" <=> OrderedListRule(arg)
        /\ (/\ arg # <<>>
            /\ arg[1] \in {DigitChars[d] : d \in 1..10}
            /\ ~OrderedListRule(arg)) => ret = "paragraph"

\* a list whose second line skips a number
C8_Witness ==
    /\ Classified
    /\ arg = <<"1", ".", " ", "a", "\n", "3", ".", " ", "a">>
    /\ ret = "paragraph"

\* C9: text_to_textnodes of the empty string returns the empty list.
C9_EmptyTextNoSpans ==
    (fn = "text_to_textnodes" /\ arg = <<>>) => ret = ok(<<>>)

C9_Witness == fn = "text_to_textnodes" /\ arg = <<>> /\ ret.ok /\ ret.val = <<>>

\* the number of non-overlapping occurrences of d in s, counted left to
\* right from position i
RECURSIVE Occurrences(_, _, _)
Occurrences(s, d, i) ==
    IF i + Len(d) - 1 > Len(s) THEN 0
    ELSE IF SubSeq(s, i, i + Len(d) - 1) = d THEN 1 + Occurrences(s, d, i + Len(d))
    ELSE Occurrences(s, d, i + 1)

\* the places of the Text spans with an odd number of delimiters
Unmatched(nodes, d) ==
    {n \in 1..Len(nodes) :
        nodes[n].text_type = "text" /\ Occurrences(nodes[n].text, d, 1) % 2 = 1}

\* the places of the Text spans without the delimiter
Undelimited(nodes, d) ==
    {n \in 1..Len(nodes) :
        nodes[n].text_type = "text" /\ Occurrences(nodes[n].text, d, 1) = 0}

DelimiterErrorRule ==
    /\ ret.ok <=> Unmatched(arg.old_nodes, arg.delimiter) = {}
    /\ ~ret.ok =>
          /\ ret.exc.type = "ValueError"
          /\ ret.exc.delimiter = arg.delimiter
          /\ ret.exc.text =
               arg.old_nodes[Min(Unmatched(arg.old_nodes, arg.delimiter))].text

HasSub(s, p) ==
    \E i \in 1..(Len(s) - Len(p) + 1) : SubSeq(s, i, i + Len(p) - 1) = p

\* s holds a bracket pair without brackets inside, followed at once by a
\* parenthesis pair without parentheses inside
HasBracketPattern(s) ==
    \E j \in 1..Len(s), a \in 1..Len(s), b \in 1..Len(s) :
        /\ j < a /\ a + 1 < b
        /\ s[j] = "[" /\ s[a] = "]" /\ s[a + 1] = "(" /\ s[b] = ")"
        /\ \A k \in (j + 1)..(a - 1) : s[k] \notin {"[", "]"}
        /\ \A k \in (a + 2)..(b - 1) : s[k] \notin {"(", ")"}

\* a text without inline markers
NoMarkers(s) ==
    /\ ~HasSub(s, <<"*", "*">>)
    /\ \A i \in 1..Len(s) : s[i] \notin {"_", Backtick}
    /\ ~HasBracketPattern(s)

Tokenized == fn = "text_to_textnodes"

\* C11: text_to_textnodes of a non-empty text without inline markers returns
\* one span: a Text span of the whole text, without a url.
C11_PlainTextOneSpan ==
    (Tokenized /\ arg # <<>> /\ NoMarkers(arg)) =>
        ret = ok(<<TextNode(arg, "text", None)>>)

\* a text with a lone asterisk, a lone bracket and a lone exclamation mark
C11_Witness ==
    /\ Tokenized
    /\ arg = <<"!", "*", "[">>
    /\ ret.ok
    /\ ret.val = <<TextNode(<<"!", "*", "[">>, "text", None)>>

\* where the non-overlapping occurrences of d in s start, found left to right
\* from position i
RECURSIVE OccurrenceStarts(_, _, _)
OccurrenceStarts(s, d, i) ==
    IF i + Len(d) - 1 > Len(s) THEN <<>>
    ELSE IF SubSeq(s, i, i + Len(d) - 1) = d
         THEN <<i>> \o OccurrenceStarts(s, d, i + Len(d))
    ELSE OccurrenceStarts(s, d, i + 1)

\* the k-th of the parts that the occurrences starting at starts cut s into
PartBetween(s, d, starts, k) ==
    SubSeq(s,
           IF k = 1 THEN 1 ELSE starts[k - 1] + Len(d),
           IF k = Len(starts) + 1 THEN Len(s) ELSE starts[k] - 1)

\* the parts in order, each as a span: the first, third, ... part a Text span
\* and the second, fourth, ... part a span of the target type
TypedParts(s, d, text_type, starts) ==
    [k \in 1..(Len(starts) + 1) |->
        TextNode(PartBetween(s, d, starts, k),
                 IF k % 2 = 1 THEN "text" ELSE text_type, None)]

NotEmptySpan(span) == span.text # <<>>

\* what a delimiter pass makes of the nodes from the n-th on
RECURSIVE AlternatingParts(_, _, _, _)
AlternatingParts(nodes, n, d, text_type) ==
    IF n > Len(nodes) THEN <<>>
    ELSE (IF nodes[n].text_type # "text" THEN <<nodes[n]>>
          ELSE SelectSeq(TypedParts(nodes[n].text, d, text_type,
                                    OccurrenceStarts(nodes[n].text, d, 1)),
                         NotEmptySpan))
         \o AlternatingParts(nodes, n + 1, d, text_type)

BracketPatternAt(s, j) ==
    \E a \in 1..Len(s), b \in 1..Len(s) :
        /\ 1 <= j /\ j < a /\ a + 1 < b
        /\ s[j] = "[" /\ s[a] = "]" /\ s[a + 1] = "(" /\ s[b] = ")"
        /\ \A k \in (j + 1)..(a - 1) : s[k] \notin {"[", "]"}
        /\ \A k \in (a + 2)..(b - 1) : s[k] \notin {"(", ")"}

\* where the image markups of s start
ImageStarts(s) == {i \in 1..Len(s) : s[i] = "!" /\ BracketPatternAt(s, i + 1)}

\* where the link markups of s start: bracket patterns not after a '!'
LinkStarts(s) ==
    {i \in 1..Len(s) : BracketPatternAt(s, i) /\ (i = 1 \/ s[i - 1] # "!")}

\* the link markup [anchor](target) of a Link span starts at i in s
LinkMarkupAt(s, i, span) ==
    /\ i + Len(span.text) + Len(span.url) + 3 <= Len(s)
    /\ SubSeq(s, i, i + Len(span.text) + Len(span.url) + 3)
         = <<"[">> \o span.text \o <<"]", "(">> \o span.url \o <<")">>

RECURSIVE ImagesInText(_, _)
ImagesInText(nodes, n) ==
    IF n > Len(nodes) THEN 0
    ELSE (IF nodes[n].text_type = "text"
          THEN Cardinality(ImageStarts(nodes[n].text)) ELSE 0)
         + ImagesInText(nodes, n + 1)

\* C13: every Link span that split_nodes_link makes is a link markup of the
\* text that does not follow a '!', and every image markup of the text is
\* still, whole, in the text of a Text span.
C13_LinkPassKeepsImages ==
    fn = "split_nodes_link" =>
        /\ \A k \in 1..Len(ret) :
               ret[k].text_type = "link" =>
                   \E i \in LinkStarts(arg[1].text) : LinkMarkupAt(arg[1].text, i, ret[k])
        /\ ImagesInText(ret, 1) = Cardinality(ImageStarts(arg[1].text))

\* an image and a link whose alt text, anchor and urls are delimiters, and
\* the same image and link with letters in their place
DelimiterImage == <<"!", "[", "_", "]", "(", "*", "*", ")">>

DelimiterLink == <<"[", Backtick, "]", "(", "_", ")">>

LetterImage == <<"!", "[", "b", "]", "(", "v", ")">>

LetterLink == <<"[", "c", "]", "(", "w", ")">>

\* s from position i on, every occurrence of p replaced by q
RECURSIVE Substitute(_, _, _, _)
Substitute(s, p, q, i) ==
    IF i > Len(s) THEN <<>>
    ELSE IF i + Len(p) - 1 <= Len(s) /\ SubSeq(s, i, i + Len(p) - 1) = p
         THEN q \o Substitute(s, p, q, i + Len(p))
    ELSE <<s[i]>> \o Substitute(s, p, q, i + 1)

WithLetters(s) ==
    Substitute(Substitute(s, DelimiterImage, LetterImage, 1), DelimiterLink, LetterLink, 1)

DelimiterFor(t) ==
    IF t = <<"b">> THEN <<"_">>
    ELSE IF t = <<"v">> THEN <<"*", "*">>
    ELSE IF t = <<"c">> THEN <<Backtick>>
    ELSE IF t = <<"w">> THEN <<"_">>
    ELSE t

WithDelimiters(span) ==
    IF span.text_type \in {"image", "link"}
    THEN TextNode(DelimiterFor(span.text), span.text_type, DelimiterFor(span.url))
    ELSE span

\* r is r0 with the delimiters back in its Image and Link spans
SameButForLetters(r, r0) ==
    IF r0.ok
    THEN /\ r.ok
         /\ Len(r.val) = Len(r0.val)
         /\ \A k \in 1..Len(r0.val) : r.val[k] = WithDelimiters(r0.val[k])
    ELSE r = r0

\* C14: delimiters in the alt text, the anchor or the url of an image or a
\* link do not change what text_to_textnodes does: it raises when the same
\* text with letters in their place raises, and else returns the same spans,
\* the Image and Link spans holding the delimiters in their text and url.
C14_DelimitersInsideImagesAndLinks ==
    (Tokenized /\ (HasSub(arg, DelimiterImage) \/ HasSub(arg, DelimiterLink))) =>
        /\ SameButForLetters(ret, text_to_textnodes(WithLetters(arg)))
        /\ (ret.ok /\ HasSub(arg, DelimiterImage)) =>
               \E k \in 1..Len(ret.val) :
                   ret.val[k] = TextNode(<<"_">>, "image", <<"*", "*">>)
        /\ (ret.ok /\ HasSub(arg, DelimiterLink)) =>
               \E k \in 1..Len(ret.val) :
                   /\ ret.val[k].text_type \in {"link", "image"}
                   /\ ret.val[k].text = <<Backtick>>
                   /\ ret.val[k].url = <<"_">>

\* an image and a link with delimiters inside, and emphasis after them
C14_Witness ==
    /\ Tokenized
    /\ arg = DelimiterImage \o DelimiterLink
    /\ ret = ok(<<TextNode(<<"_">>, "image", <<"*", "*">>),
                  TextNode(<<Backtick>>, "link", <<"_">>)>>)

Delimiters == {<<"*", "*">>, <<"_">>, <<Backtick>>}

\* the delimiter e occurs in s between the two delimiters d of a pair, the
\* pairs of d being its first and second occurrence, its third and fourth, ...
OccursInside(s, d, e, dstarts, estarts) ==
    \E k \in 1..(Len(dstarts) \div 2), j \in 1..Len(estarts) :
        dstarts[2 * k - 1] < estarts[j] /\ estarts[j] < dstarts[2 * k]

\* no delimiter occurs in s inside the content that another delimiter matches
NotNested(s) ==
    \A d \in Delimiters, e \in Delimiters :
        d # e => ~OccursInside(s, d, e, OccurrenceStarts(s, d, 1), OccurrenceStarts(s, e, 1))

\* the six orders of the three passes of lines 289-291
PassOrders ==
    {<<1, 2, 3>>, <<1, 3, 2>>, <<2, 1, 3>>, <<2, 3, 1>>, <<3, 1, 2>>, <<3, 2, 1>>}

PassesIn(order) ==
    <<DelimiterPasses[order[1]], DelimiterPasses[order[2]], DelimiterPasses[order[3]]>>

\* the spans that the delimiter passes of text_to_textnodes(text) start from
BeforeDelimiters(text) == split_nodes_link(split_nodes_image(<<TextNode(text, "text", None)>>))

AllNotNested(spans) ==
    \A n \in 1..Len(spans) : spans[n].text_type = "text" => NotNested(spans[n].text)

SameOutcome(r, r0) == IF r0.ok THEN r = r0 ELSE ~r.ok

\* C15: for a text without a delimiter inside the content matched by
\* another delimiter, the three delimiter passes in any of their six orders
\* return the spans that text_to_textnodes returns, and raise when it raises.
C15_PassOrderIrrelevant ==
    (Tokenized /\ AllNotNested(BeforeDelimiters(arg))) =>
        \A order \in PassOrders :
            SameOutcome(delimiter_passes(PassesIn(order), 1, ok(BeforeDelimiters(arg))), ret)

\* three regions side by side, one of each delimiter
C15_Witness ==
    /\ Tokenized
    /\ arg = <<"_", "a", "_", "*", "*", "a", "*", "*", Backtick, "a", Backtick>>
    /\ AllNotNested(BeforeDelimiters(arg))
    /\ ret = ok(<<TextNode(<<"a">>, "italic", None), TextNode(<<"a">>, "bold", None),
                  TextNode(<<"a">>, "code", None)>>)

\* C16: a span that text_to_textnodes returns has a url, which may be the
\* empty string, exactly when it is a Link or an Image, and the conversion
\* of the spans to leaf nodes does not raise.
C16_UrlIffLinkOrImage ==
    (Tokenized /\ ret.ok) =>
        /\ \A k \in 1..Len(ret.val) :
               (ret.val[k].url # None) <=> (ret.val[k].text_type \in {"link", "image"})
        /\ text_nodes_to_children(ret.val, 1, <<>>).ok

\* a link with an empty url next to an image and a plain text
C16_Witness ==
    /\ Tokenized
    /\ arg = <<"[", "a", "]", "(", ")", "!", "[", "a", "]", "(", "u", ")", "a">>
    /\ ret = ok(<<TextNode(<<"a">>, "link", <<>>), TextNode(<<"a">>, "image", <<"u">>),
                  TextNode(<<"a">>, "text", None)>>)
    /\ text_nodes_to_children(ret.val, 1, <<>>).ok

\* the tags of the spans that become a tagged leaf without attributes
EmphasisTag(text_type) ==
    IF text_type = "bold" THEN <<"b">>
    ELSE IF text_type = "italic" THEN <<"i">>
    ELSE <<"c", "o", "d", "e">>

\* C17: text_node_to_html_node returns one LeafNode: for Text, untagged with
\* the text as value; for Bold, Italic and Code, tagged b, i and code with the
\* text as value, all without props; for a Link with a url, tagged a with the
\* text as value and the props href = url; for an Image with a url and a
\* text, tagged img with the empty value and the props src = url, alt = text,
\* in this order; a span of another type raises a ValueError.
C17_SpanToLeaf ==
    fn = "text_node_to_html_node" =>
        /\ arg.text_type = "text" =>
               ret = ok([cls |-> "LeafNode", tag |-> None, value |-> arg.text,
                         children |-> NoneList, props |-> NoneList])
        /\ arg.text_type \in {"bold", "italic", "code"} =>
               ret = ok([cls |-> "LeafNode", tag |-> EmphasisTag(arg.text_type),
                         value |-> arg.text, children |-> NoneList, props |-> NoneList])
        /\ (arg.text_type = "link" /\ arg.url # None) =>
               ret = ok([cls |-> "LeafNode", tag |-> <<"a">>, value |-> arg.text,
                         children |-> NoneList,
                         props |-> <<[key |-> <<"h", "r", "e", "f">>, val |-> arg.url]>>])
        /\ (arg.text_type = "image" /\ arg.url # None /\ arg.text # None) =>
               ret = ok([cls |-> "LeafNode", tag |-> <<"i", "m", "g">>, value |-> <<>>,
                         children |-> NoneList,
                         props |-> <<[key |-> <<"s", "r", "c">>, val |-> arg.url],
                                     [key |-> <<"a", "l", "t">>, val |-> arg.text]>>])
        /\ arg.text_type \notin TextType =>
               /\ ~ret.ok
               /\ ret.exc.type = "ValueError"
               /\ ret.exc.what = "Unsupported text type"

\* an Image span converted to its leaf
C17_Witness ==
    /\ fn = "text_node_to_html_node"
    /\ arg = TextNode(<<"a", "b">>, "image", <<"u">>)
    /\ ret.ok
    /\ ret.val.value = <<>>
    /\ ret.val.props[2].val = <<"a", "b">>

\* the attributes of a node up to the k-th: for each, a space and key="value"
RECURSIVE AttributesUpTo(_, _)
AttributesUpTo(props, k) ==
    IF k = 0 THEN <<>>
    ELSE AttributesUpTo(props, k - 1)
         \o <<" ">> \o props[k].key \o <<"=", "\"">> \o props[k].val \o <<"\"">>

Attributes(props) ==
    IF props = NoneList THEN <<>> ELSE AttributesUpTo(props, Len(props))

\* a tree without a Leaf that lacks its value and without a Parent that lacks
\* its tag or its children
RECURSIVE ValidTree(_)
ValidTree(node) ==
    IF node.cls = "LeafNode" THEN node.value # None
    ELSE /\ node.tag # None
         /\ node.tag # <<>>
         /\ node.children # NoneList
         /\ \A k \in 1..Len(node.children) : ValidTree(node.children[k])

\* the depth-first, pre-order text of a valid tree
RECURSIVE Rendering(_)
RECURSIVE RenderingsUpTo(_, _)
RenderingsUpTo(children, k) ==
    IF k = 0 THEN <<>>
    ELSE RenderingsUpTo(children, k - 1) \o Rendering(children[k])

Rendering(node) ==
    IF node.cls = "LeafNode" /\ node.tag = None THEN node.value
    ELSE <<"<">> \o node.tag \o Attributes(node.props) \o <<">">>
         \o (IF node.cls = "LeafNode" THEN node.value
             ELSE RenderingsUpTo(node.children, Len(node.children)))
         \o <<"<", "/">> \o node.tag \o <<">">>

\* C18: to_html of a valid tree is its depth-first, pre-order text: the
\* opening tag with the attributes, then the renderings of the children in
\* order, or the value of a Leaf, then the closing tag; the value alone for a
\* Leaf without tag; the attributes in the order of the props, each a space
\* and key="value", and nothing without props.
C18_RenderPreOrder ==
    (fn = "to_html" /\ ValidTree(arg)) => ret = ok(Rendering(arg))

\* a div with an attribute around a paragraph, an emphasis and an image
C18_Witness ==
    /\ fn = "to_html"
    /\ arg = ParentNode(<<"d", "i", "v">>,
                 <<ParentNode(<<"p">>, <<LeafNode(<<"a">>, <<"b">>, <<>>)>>, NoneList),
                   LeafNode(<<>>, <<"i", "m", "g">>,
                       <<Prop(<<"s", "r", "c">>, <<"u">>), Prop(<<"a", "l", "t">>, <<"a">>)>>)>>,
                 <<Prop(<<"i", "d">>, <<"x">>)>>)
    /\ ret.ok
    /\ Len(ret.val) = 60
    /\ SubSeq(ret.val, 1, 15) = <<"<", "d", "i", "v", " ", "i", "d", "=", "\"", "x", "\"", ">",
                                  "<", "p", ">">>

\* C19: to_html raises a ValueError exactly when some node of the tree is a
\* Leaf without value or a Parent without tag, with the empty tag or without
\* children, at any depth; a Parent with an empty list of children is valid.
C19_RenderFailsIffInvalid ==
    fn = "to_html" =>
        /\ ret.ok <=> ValidTree(arg)
        /\ ~ret.ok => ret.exc.type = "ValueError"

\* a Leaf without value two levels down, next to a Parent without children
C19_Witness ==
    /\ fn = "to_html"
    /\ arg = ParentNode(<<"p">>,
                 <<ParentNode(<<"p">>, <<>>, NoneList), LeafNode(None, <<"b">>, NoneList)>>,
                 NoneList)
    /\ ~ret.ok
    /\ ret.exc.what = "LeafNode requires a value"

\* s without the whitespace before its first and after its last character
\* that is not whitespace
Trimmed(s) ==
    IF \A i \in 1..Len(s) : s[i] \in {" ", "\t", "\n", "\r"} THEN <<>>
    ELSE SubSeq(s,
                CHOOSE i \in 1..Len(s) :
                    /\ s[i] \notin {" ", "\t", "\n", "\r"}
                    /\ \A j \in 1..(i - 1) : s[j] \in {" ", "\t", "\n", "\r"},
                CHOOSE i \in 1..Len(s) :
                    /\ s[i] \notin {" ", "\t", "\n", "\r"}
                    /\ \A j \in (i + 1)..Len(s) : s[j] \in {" ", "\t", "\n", "\r"})

\* the lines of D whose trimmed form starts with '# '
H1Lines(D) ==
    {k \in 1..LineCount(D) : HasPrefix(Trimmed(LineOf(D, k)), <<"#", " ">>)}

FirstH1Line(D) == Trimmed(LineOf(D, CHOOSE k \in H1Lines(D) : \A j \in H1Lines(D) : k <= j))

\* C20: extract_title returns, for the first line whose trimmed form starts
\* with '# ', that trimmed line without its first two characters, trimmed
\* again, and raises a ValueError exactly when no line has such a trimmed
\* form.
C20_TitleOfFirstH1 ==
    fn = "extract_title" =>
        IF H1Lines(arg) = {}
        THEN /\ ~ret.ok
             /\ ret.exc.type = "ValueError"
             /\ ret.exc.what = "No H1 heading found"
        ELSE ret = ok(Trimmed(SubSeq(FirstH1Line(arg), 3, Len(FirstH1Line(arg)))))

\* the title is on the second line, after whitespace and before whitespace
C20_Witness ==
    /\ fn = "extract_title"
    /\ arg = <<"\n", " ", "#", " ", "a", " ">>
    /\ ret = ok(<<"a">>)

\* the blocks of D that are headings of level 1, by their index
H1Blocks(D) ==
    {k \in 1..Len(markdown_to_blocks(D)) :
        /\ block_to_block_type(markdown_to_blocks(D)[k]) = "heading"
        /\ HashRun(LineOf(markdown_to_blocks(D)[k], 1)) = 1}

FirstH1Block(D) ==
    markdown_to_blocks(D)[CHOOSE k \in H1Blocks(D) : \A j \in H1Blocks(D) : k <= j]

\* the text of the first line of B after its first two characters, trimmed
HeadingText(B) == Trimmed(SubSeq(LineOf(B, 1), 3, Len(LineOf(B, 1))))

\* C21: extract_title succeeds exactly when some block of the document is a
\* heading with one leading '#', and it returns the heading text of the first
\* such block.
C21_TitleIsFirstH1Block ==
    fn = "extract_title" =>
        IF H1Blocks(arg) = {} THEN ~ret.ok
        ELSE ret = ok(HeadingText(FirstH1Block(arg)))

\* what markdown_to_html_node(D) returns or raises when it runs alone
AloneResult(D) ==
    IF FailingBlocks(markdown_to_blocks(D)) = {}
    THEN ok(ParentNode(<<"d", "i", "v">>,
                [i \in 1..Len(markdown_to_blocks(D)) |->
                    block_to_html_node(markdown_to_blocks(D)[i]).val],
                NoneList))
    ELSE block_to_html_node(markdown_to_blocks(D)[Min(FailingBlocks(markdown_to_blocks(D)))])

\* C22: however the steps of two calls of markdown_to_html_node interleave,
\* the locals of each call are those of the call running alone on its own
\* document (its blocks, and the nodes of the blocks before its loop index),
\* and the call returns or raises what it returns or raises alone; two calls
\* on the same document end with the same result.
C22_CallsIndependent ==
    \A c \in Callers :
        /\ Segmented(c) => blocks[c] = markdown_to_blocks(markdown[c])
        /\ pc[c] \in {"start", "loop"} => result[c] = Pending
        /\ pc[c] = "loop" =>
               children_nodes[c] =
                   [i \in 1..(block_idx[c] - 1) |->
                       block_to_html_node(markdown_to_blocks(markdown[c])[i]).val]
        /\ pc[c] \in {"done", "raised"} => result[c] = AloneResult(markdown[c])
        /\ \A o \in Callers :
               (markdown[o] = markdown[c] /\ pc[o] \in {"done", "raised"}
                    /\ pc[c] \in {"done", "raised"}) => result[o] = result[c]

\* two calls on different documents of two blocks each, both in their loop
\* when the one returned a tree and the other raised at its second block
C22_Witness ==
    /\ pc[1] = "done"
    /\ pc[2] = "raised"
    /\ markdown[1] # markdown[2]
    /\ Len(result[1].val.children) = 2
    /\ Len(children_nodes[2]) = 1

\* the text of a fenced block between its two fences
BetweenFences(B) == SubSeq(B, 4, Len(B) - 3)

\* a string of n newlines
Newlines(n) == [k \in 1..n |-> "\n"]

CodeConverted == fn = "code_block_to_html_node" /\ block_to_block_type(arg) = "code"

\* C23: code_block_to_html_node of a block classified code never raises and
\* never tokenizes: it returns a ParentNode "pre" with one child, a LeafNode
\* "code" without props, whose value is the text between the fences with
\* nothing but newlines removed at its two ends, so every inline marker of
\* the content is in the value as it was written.
C23_CodeNotTokenized ==
    CodeConverted =>
        /\ ret.ok
        /\ ret.val.cls = "ParentNode"
        /\ ret.val.tag = <<"p", "r", "e">>
        /\ ret.val.props = NoneList
        /\ Len(ret.val.children) = 1
        /\ ret.val.children[1].cls = "LeafNode"
        /\ ret.val.children[1].tag = <<"c", "o", "d", "e">>
        /\ ret.val.children[1].props = NoneList
        /\ \E i \in 0..Len(BetweenFences(arg)), j \in 0..Len(BetweenFences(arg)) :
               BetweenFences(arg) = Newlines(i) \o ret.val.children[1].value \o Newlines(j)

\* a code block whose content holds an unmatched bold delimiter and a link
C23_Witness ==
    /\ CodeConverted
    /\ BetweenFences(arg) = <<"*", "*", "[", "a", "]", "(", "u", ")", "_">>
    /\ ret.ok
    /\ ret.val.children[1].value = BetweenFences(arg)

\* s without one leading newline and then without one trailing newline
LessOneNewlineEachEnd(s) ==
    SubSeq(s,
           IF s # <<>> /\ s[1] = "\n" THEN 2 ELSE 1,
           IF Len(s) >= 2 /\ s[Len(s)] = "\n" THEN Len(s) - 1
           ELSE IF s = <<"\n">> THEN 1 ELSE Len(s))

LeadingNewlines(s) ==
    CHOOSE n \in 0..Len(s) :
        /\ \A k \in 1..n : s[k] = "\n"
        /\ n = Len(s) \/ s[n + 1] # "\n"

TrailingNewlines(s) ==
    CHOOSE n \in 0..Len(s) :
        /\ \A k \in 1..n : s[Len(s) + 1 - k] = "\n"
        /\ n = Len(s) \/ s[Len(s) - n] # "\n"

LessQuoteMarker(line) ==
    SubSeq(line, IF Len(line) >= 2 /\ line[2] = " " THEN 3 ELSE 2, Len(line))

QuoteContent(B) ==
    join(<<"\n">>, [k \in 1..LineCount(B) |-> LessQuoteMarker(LineOf(B, k))])

\* C25: quote_block_to_html_node of a block classified quote returns the
\* ParentNode "blockquote" of the tokenization of its lines, each without one
\* leading '>' and at most one space after it, rejoined with newlines.
C25_QuoteStripsOneMarker ==
    (fn = "quote_block_to_html_node" /\ block_to_block_type(arg) = "quote") =>
        ret = parent_of(<<"b", "l", "o", "c", "k", "q", "u", "o", "t", "e">>,
                        text_to_children(QuoteContent(arg)))

\* the leaves of the tokenization of a text that tokenizes
TokenizedChildren(text) ==
    [k \in 1..Len(text_to_textnodes(text).val) |->
        text_node_to_html_node(text_to_textnodes(text).val[k]).val]

\* the ParentNode tag of the tokenization of text, or the exception the
\* tokenization raises
ParentOfTokens(tag, text) ==
    IF text_to_textnodes(text).ok
    THEN ok(ParentNode(tag, TokenizedChildren(text), NoneList))
    ELSE text_to_textnodes(text)

\* the text of a heading line after its '#' characters and the space
TextAfterMarker(line) == Trimmed(SubSeq(line, HashRun(line) + 2, Len(line)))

HeadingConverted ==
    fn = "heading_block_to_html_node" /\ block_to_block_type(arg) = "heading"

\* C26: heading_block_to_html_node of a block classified heading returns the
\* ParentNode whose tag is "h" and the number of leading '#' of the first
\* line, a number from 1 to 6, and whose children are the tokenization of the
\* rest of the first line after the space, trimmed (or it raises what that
\* tokenization raises); nothing of the later lines is in the node.
C26_HeadingOfFirstLine ==
    HeadingConverted =>
        /\ HashRun(LineOf(arg, 1)) \in 1..6
        /\ ret = ParentOfTokens(
                     <<"h", <<"1", "2", "3", "4", "5", "6">>[HashRun(LineOf(arg, 1))]>>,
                     TextAfterMarker(LineOf(arg, 1)))

\* a heading of level 2 with a bold span, followed by a line that would not
\* tokenize
C26_Witness ==
    /\ HeadingConverted
    /\ arg = <<"#", "#", " ", "*", "*", "a", "*", "*", "\n", "*", "*">>
    /\ ret.ok
    /\ ret.val.tag = <<"h", "2">>
    /\ Len(ret.val.children) = 1
    /\ ret.val.children[1].tag = <<"b">>

\* B with a space in the place of every newline
NewlinesAsSpaces(B) == [k \in 1..Len(B) |-> IF B[k] = "\n" THEN " " ELSE B[k]]

\* C27: paragraph_block_to_html_node returns the ParentNode "p" of the
\* tokenization of the block with a space in the place of every newline (or
\* raises what that tokenization raises), so a span may start on one line and
\* end on a later one, and the rendering of the node holds no newline.
C27_ParagraphJoinsLines ==
    fn = "paragraph_block_to_html_node" =>
        /\ ret = ParentOfTokens(<<"p">>, NewlinesAsSpaces(arg))
        /\ ret.ok =>
               /\ to_html(ret.val).ok
               /\ \A k \in 1..Len(to_html(ret.val).val) : to_html(ret.val).val[k] # "\n"

\* a bold span opened on the first line and closed on the second
C27_Witness ==
    /\ fn = "paragraph_block_to_html_node"
    /\ arg = <<"*", "*", "a", "\n", "b", "*", "*">>
    /\ ret.ok
    /\ Len(ret.val.children) = 1
    /\ ret.val.children[1].tag = <<"b">>
    /\ ret.val.children[1].value = <<"a", " ", "b">>

\* the text of an item: a line of an unordered list without its first two
\* characters, a line of an ordered list without everything up to its first
\* space
UnorderedItem(line) == SubSeq(line, 3, Len(line))

OrderedItem(line) ==
    SubSeq(line,
           (CHOOSE i \in 1..Len(line) :
               line[i] = " " /\ \A j \in 1..(i - 1) : line[j] # " ") + 1,
           Len(line))

ItemsOf(B, ordered) ==
    [k \in 1..LineCount(B) |->
        IF ordered THEN OrderedItem(LineOf(B, k)) ELSE UnorderedItem(LineOf(B, k))]

FailingItems(items) == {k \in 1..Len(items) : ~text_to_textnodes(items[k]).ok}

\* the list node of the items, or what the first item that does not tokenize
\* raises
ListOfItems(tag, items) ==
    IF FailingItems(items) = {}
    THEN ok(ParentNode(tag,
                [k \in 1..Len(items) |->
                    ParentNode(<<"l", "i">>, TokenizedChildren(items[k]), NoneList)],
                NoneList))
    ELSE text_to_textnodes(items[Min(FailingItems(items))])

\* C28: the converter of a block classified unordered_list returns a "ul"
\* and the converter of a block classified ordered_list an "ol" with one
\* "li" per line of the block, in the order of the lines, the children of an
\* item being the tokenization of its line without the marker: without two
\* characters in a "ul", without everything up to the first space in an
\* "ol", whatever the number of digits of the marker (or the converter raises
\* what the first line that does not tokenize raises).
C28_OneItemPerLine ==
    /\ (fn = "unordered_list_block_to_html_node"
            /\ block_to_block_type(arg) = "unordered_list") =>
           ret = ListOfItems(<<"u", "l">>, ItemsOf(arg, FALSE))
    /\ (fn = "ordered_list_block_to_html_node"
            /\ block_to_block_type(arg) = "ordered_list") =>
           ret = ListOfItems(<<"o", "l">>, ItemsOf(arg, TRUE))

\* the ordered list of ten lines, whose tenth item follows the marker "10. "
C28_Witness ==
    /\ fn = "ordered_list_block_to_html_node"
    /\ block_to_block_type(arg) = "ordered_list"
    /\ LineCount(arg) = 10
    /\ LineOf(arg, 10) = <<"1", "0", ".", " ", "a">>
    /\ ret.ok
    /\ Len(ret.val.children) = 10
    /\ ret.val.children[10].children[1].value = <<"a">>

\* C29: the conditions of the five rules of block_to_block_type exclude one
\* another: at most one of them holds for a block, the block is classified
\* by the one that holds and as a paragraph when none holds, so testing the
\* rules in another order gives the same type.
C29_RulesExclusive ==
    Classified =>
        /\ Cardinality(matching_rules(arg, split(arg, <<"\n">>))) <= 1
        /\ \A t \in matching_rules(arg, split(arg, <<"\n">>)) : ret = t
        /\ matching_rules(arg, split(arg, <<"\n">>)) = {} => ret = "paragraph"

\* a quote whose line holds the marker of a heading after its '>'
C29_Witness ==
    /\ Classified
    /\ arg = <<">", "#", " ">>
    /\ matching_rules(arg, split(arg, <<"\n">>)) = {"quote"}
    /\ ret = "quote"

\* C30: in the spans text_to_textnodes returns, no Text span holds "**", "_"
\* or a backtick, and no Text, Bold, Italic or Code span has an empty text;
\* only an Image or a Link span may have one.
C30_NoDelimiterLeftNoEmptySpan ==
    (Tokenized /\ ret.ok) =>
        \A k \in 1..Len(ret.val) :
            /\ ret.val[k].text_type = "text" =>
                   /\ ~HasSub(ret.val[k].text, <<"*", "*">>)
                   /\ ~HasSub(ret.val[k].text, <<"_">>)
                   /\ ~HasSub(ret.val[k].text, <<Backtick>>)
            /\ ret.val[k].text_type \in {"text", "bold", "italic", "code"} =>
                   ret.val[k].text # <<>>

\* a text, a bold span and a link with an empty target
C30_Witness ==
    /\ Tokenized
    /\ arg = <<"*", "*", "a", "*", "*", "*", "[", "a", "]", "(", ")">>
    /\ ret.ok
    /\ Len(ret.val) = 3
    /\ ret.val[1].text_type = "bold"
    /\ ret.val[2] = TextNode(<<"*">>, "text", None)
    /\ ret.val[3] = TextNode(<<"a">>, "link", <<>>)

====
